---- MODULE Spec2Model ----
(***************************************************************************)
(* State-machine model of the Bayes API clients of esports_cog_utils:      *)
(* BayesClient (bayes/client.py, blocking) and AsyncBayesClient            *)
(* (bayes/async_client.py, with the persisted session file).               *)
(*                                                                         *)
(* One step of the model is what a client does between two exchanges with  *)
(* the outside world: the answer of the server to the request in flight    *)
(* and the code that runs up to the next request (or to the end of the     *)
(* operation).  The server, the clock and the content of the persisted     *)
(* file at start-up are the environment and are chosen nondeterministically.*)
(*                                                                         *)
(* Times are whole seconds; a datetime and its POSIX timestamp are both    *)
(* the number of seconds on one local clock.  A list of games is kept as a *)
(* sequence of runs: a run [tags, n, keys] stands for n consecutive games  *)
(* with that tag list and those keys, so that lists as long as the page    *)
(* size 99999 stay representable.                                          *)
(***************************************************************************)
EXTENDS Integers, Sequences, FiniteSets, TLC

VARIABLES
    variant,        \* "sync" (BayesClient) or "async" (AsyncBayesClient)
    access_token,   \* self.access_token ("None" for None)
    refresh_token,  \* self.refresh_token
    expires,        \* self.expires
    file,           \* content of SAVE_FILE
    now,            \* datetime.now()
    faults,         \* answers other than a well-formed 200 the server may still give
    calls,          \* operations started so far
    ntasks,         \* number of callers using the client
    nonpos,         \* history: the server has granted a lifetime <= 0
    fr              \* per caller: position and locals of the running operation

vars == <<variant, access_token, refresh_token, expires, file, now, faults,
          calls, ntasks, nonpos, fr>>

session == <<access_token, refresh_token, expires>>

----------------------------------------------------------------------------
(* Bounds of the model. *)

MaxClock  == 2      \* the clock runs from StartClock to MaxClock
MaxFaults == 2      \* bad answers of the server in one behaviour
MaxDepth  == 3      \* nested _ensure_login frames before RecursionError
MaxCalls  == 1      \* operations started in one behaviour
MaxPages  == 3      \* listing requests of one get_all_games
MaxScript == 3      \* answers the server gives to the two clients run side by side

TaskIds == {1, 2}

----------------------------------------------------------------------------
(* Values. *)

None == "None"

\* shared_types.py: INFINITY
INFINITY == 99999

\* shared_types.py: BaseBayesClient.SPECIAL_TAGS
SPECIAL_TAGS == <<"NULL", "ALL">>

\* shared_types.py: class Service
Service == [LOGIN |-> "login", REFRESH |-> "login/refresh_token",
            TAGS |-> "api/v1/tags", GAMES |-> "api/v1/games",
            GAME |-> "api/v1/games/{rpgid}", ASSET |-> "api/v1/games/{rpgid}/download"]

\* datetime.min, the default of the constructor's expires
DatetimeMin == 0
StartClock == DatetimeMin + 1

\* ensure_keys of the login exchange, and of the refresh exchange per client
LoginKeys == {"accessToken", "refreshToken", "expiresIn"}
RefreshKeys(v) == IF v = "async" THEN {"accessToken", "refreshToken", "expiresIn"}
                  ELSE {"accessToken", "expiresIn"}

\* GetGamesResponse.__annotations__ and Game.__annotations__
GetGamesResponse == {"page", "size", "count", "games"}
Game == {"platformGameId", "name", "status", "createdAt", "assets", "tags",
         "blockName", "subBlockName", "teamTriCodes"}

\* seconds by which the local clock, in which datetime.now() is read, is
\* ahead of UTC
UtcOffset == 1

\* datetime.timestamp() of a local datetime, and datetime.fromtimestamp(),
\* on whole seconds
Timestamp(d) == d - UtcOffset
FromTimestamp(ts) == ts + UtcOffset

RECURSIVE SeqSum(_)
SeqSum(s) == IF s = <<>> THEN 0 ELSE Head(s) + SeqSum(Tail(s))

\* len(games) of a list kept as runs
GamesLen(games) == SeqSum([i \in 1..Len(games) |-> games[i].n])

----------------------------------------------------------------------------
(* What the environment may supply. *)

Lifetimes == {0, 1}
AccessTokens == {"a1", "a2"}
RefreshTokens == {"r1"}

\* bodies of the login and refresh answers
TokenBodies ==
    [keys : {LoginKeys, LoginKeys \ {"refreshToken"}, LoginKeys \ {"accessToken"}},
     at : AccessTokens, rt : RefreshTokens, expiresIn : Lifetimes]

\* api_types.py: AssetType, the kinds a caller may ask for and a game may offer
AssetArgs == {"GAMH_DETAILS", "GAMH_SUMMARY"}
Offered == <<"GAMH_DETAILS">>

Untagged(n) == [tags |-> <<>>, n |-> n, keys |-> Game, assets |-> Offered]
Tagged(n) == [tags |-> <<"T1">>, n |-> n, keys |-> Game, assets |-> Offered]
Broken(n) == [tags |-> <<>>, n |-> n, keys |-> Game \ {"name"}, assets |-> Offered]

\* the games of one page of the listing
Pages == { <<>>,
           <<Untagged(1), Tagged(1)>>,
           <<Tagged(INFINITY - 1), Untagged(1)>>,
           <<Broken(1)>> }
Counts == {2, INFINITY, 2 * INFINITY}

\* one game as answered by api/v1/games/{rpgid}
SingleGames == {Untagged(1), Tagged(1), [Tagged(1) EXCEPT !.tags = <<"T1", "T2">>], Broken(1)}

\* one game as answered to the get_game of get_asset
AssetGames == {Untagged(1), [Tagged(1) EXCEPT !.assets = <<>>],
               [Untagged(1) EXCEPT !.assets = <<"ROFL_REPLAY", "GAMH_SUMMARY">>], Broken(1)}

\* the game ids a caller may ask for
RpgIds == {"g1", "g2"}

\* bodies of the answers to api/v1/games/{rpgid}/download
Urls == {"u1", "u2"}
UrlBodies == [keys : {{"url"}, {}}, url : Urls]

\* what a signed URL may answer: any status, with these bytes
Contents == {"b1", "b2"}

\* the tag lists answered by api/v1/tags
TagLists == {<<>>, <<"T1">>}

\* arguments of get_all_games
ArgTag == {None, "NULL", "ALL", "T1"}
ArgTags == {<<None>>, <<>>, <<"NULL">>, <<"ALL">>, <<"T1">>, <<"ALL", "ALL">>,
            <<"NULL", "ALL">>, <<"T1", "NULL">>}

\* arguments of get_games: `given` is false for None; a timestamp is a
\* datetime (whole seconds, d) or a str (s)
PageArgs == {[given |-> FALSE, v |-> 0], [given |-> TRUE, v |-> 2]}
SizeArgs == {[given |-> FALSE, v |-> 0], [given |-> TRUE, v |-> 50]}
TimeArgs == {[given |-> FALSE, datetime |-> FALSE, d |-> 0, s |-> ""],
             [given |-> TRUE, datetime |-> TRUE, d |-> 7, s |-> ""],
             [given |-> TRUE, datetime |-> FALSE, d |-> 0, s |-> "2021-05-01"],
             [given |-> TRUE, datetime |-> FALSE, d |-> 0, s |-> ""]}
TagsArgs == {[given |-> FALSE, v |-> <<>>], [given |-> TRUE, v |-> <<>>],
             [given |-> TRUE, v |-> <<"T1">>], [given |-> TRUE, v |-> <<"T2", "T1">>]}
GamesArgs == [page : PageArgs, page_size : SizeArgs, from_timestamp : TimeArgs,
              to_timestamp : TimeArgs, tags : TagsArgs]

NoArgs == [page |-> [given |-> FALSE, v |-> 0], page_size |-> [given |-> FALSE, v |-> 0],
           from_timestamp |-> [given |-> FALSE, datetime |-> FALSE, d |-> 0, s |-> ""],
           to_timestamp |-> [given |-> FALSE, datetime |-> FALSE, d |-> 0, s |-> ""],
           tags |-> [given |-> FALSE, v |-> <<>>]]

\* the query of a GET: the names sent, and the value sent under each name
\* (None under a name that is not sent or is sent as null)
NoParams == [keys |-> {}, page |-> None, size |-> None, from_timestamp |-> None,
             to_timestamp |-> None, tags |-> None]

NoBody == [keys |-> {}, count |-> 0, games |-> <<>>, tags |-> <<>>]
NoOutcome == [kind |-> "none", status |-> 0]

\* what an exception carries besides its class: the strings its message is
\* formatted from, and the service and response of BayesUnexpectedResponseException
NoExc == [args |-> <<>>, service |-> None, response |-> NoBody]

\* SAVE_FILE does not exist
NoFile == [state |-> "missing", keys |-> {}, at |-> None, rt |-> None, exp |-> 0]

\* SAVE_FILE has been opened with 'w+' and nothing is written yet
EmptyFile == [NoFile EXCEPT !.state = "undecodable"]

\* a caller that runs nothing
Frame0 ==
    [pc |-> "idle", op |-> "none", service |-> "none", force |-> FALSE,
     cont |-> "headers", allow_retry |-> TRUE, depth |-> 0, bearer |-> None,
     checked |-> FALSE, checkNow |-> 0, log |-> <<>>,
     tag |-> None, tags |-> <<None>>, ftags |-> <<None>>, only_null |-> FALSE,
     data |-> NoBody, page |-> 0, reqs |-> 0, reqTags |-> <<>>, reqPage |-> 0,
     outcome |-> NoOutcome, resGames |-> <<>>, resTags |-> <<>>,
     rpgid |-> None, asset |-> None, game |-> <<>>, url |-> None, trace |-> <<>>,
     exc |-> NoExc, resBytes |-> None, args |-> NoArgs, params |-> NoParams,
     loaded |-> NoFile, dump |-> NoFile]

----------------------------------------------------------------------------
(* Pure functions of the clients. *)

InSeq(x, s) == \E i \in 1..Len(s) : s[i] = x

\* _validate_tags that looks for NULL only in a mixed filter
validate_tags_NullOnly(tag, tags) ==
    LET tags1 == IF tags = <<None>> THEN <<>> ELSE tags
        tags2 == IF tag # None THEN Append(tags1, tag) ELSE tags1
    IN  IF tags2 = <<>> \/ tags2 = <<"ALL">>
            THEN [raise |-> FALSE, tags |-> <<None>>, only_null |-> FALSE]
        ELSE IF tags2 = <<"NULL">>
            THEN [raise |-> FALSE, tags |-> <<None>>, only_null |-> TRUE]
        ELSE IF InSeq("NULL", tags2)
            THEN [raise |-> TRUE, tags |-> <<None>>, only_null |-> FALSE]
        ELSE [raise |-> FALSE, tags |-> tags2, only_null |-> FALSE]

\* BaseBayesClient._validate_tags: the filter to send (<<None>> for None),
\* the only_null flag, or the ValueError
validate_tags(tag, tags) ==
    LET tags1 == IF tags = <<None>> THEN <<>> ELSE tags
        tags2 == IF tag # None THEN Append(tags1, tag) ELSE tags1
    IN  IF tags2 = <<>> \/ tags2 = <<"ALL">>
            THEN [raise |-> FALSE, tags |-> <<None>>, only_null |-> FALSE]
        ELSE IF tags2 = <<"NULL">>
            THEN [raise |-> FALSE, tags |-> <<None>>, only_null |-> TRUE]
        ELSE IF InSeq("NULL", tags2) \/ InSeq("ALL", tags2)
            THEN [raise |-> TRUE, tags |-> <<None>>, only_null |-> FALSE]
        ELSE [raise |-> FALSE, tags |-> tags2, only_null |-> FALSE]

\* ','.join(tags)
RECURSIVE Join(_)
Join(tags) ==
    IF tags = <<>> THEN ""
    ELSE IF Len(tags) = 1 THEN tags[1]
    ELSE tags[1] \o "," \o Join(Tail(tags))

\* datetime.isoformat() of a datetime d seconds after 1970-01-01T00:00:00, d < 10
Isoformat(d) == "1970-01-01T00:00:0" \o ToString(d)

\* a timestamp argument after the isinstance test of get_games
TimeParam(t) ==
    IF ~t.given THEN None
    ELSE IF t.datetime THEN Isoformat(t.d)
    ELSE t.s

\* a get_games that sends params as it is built, None values included
get_games_params_Unfiltered(a) ==
    [keys |-> {"page", "size", "from_timestamp", "to_timestamp", "tags"},
     page |-> IF a.page.given THEN ToString(a.page.v) ELSE None,
     size |-> IF a.page_size.given THEN ToString(a.page_size.v) ELSE None,
     from_timestamp |-> TimeParam(a.from_timestamp),
     to_timestamp |-> TimeParam(a.to_timestamp),
     tags |-> IF a.tags.given THEN Join(a.tags.v) ELSE None]

\* the params get_games hands to _do_api_call, as the query string carries them
get_games_params(a) ==
    LET params == get_games_params_Unfiltered(a)
    IN  [params EXCEPT !.keys = {key \in params.keys : params[key] # None}]

\* _clean_game that leaves an empty tag list empty
clean_game_Never(game) == game

\* BaseBayesClient._clean_game, on a game that has every key
clean_game(game) ==
    IF game.tags = <<>> THEN [game EXCEPT !.tags = Append(game.tags, "NULL")] ELSE game

\* the key check of _clean_game
GameHasKeys(game) == Game \subseteq game.keys

\* a list comprehension that forgets only_null
KeepGame_All(game, only_null) == TRUE

\* the condition of the list comprehension that ends get_all_games
KeepGame(game, only_null) == ~(game.tags # <<>> /\ only_null)

\* a while condition that asks for one more page when the count is reached
MorePages_Inclusive(data) == GamesLen(data.games) <= data.count

\* the while condition of get_all_games
MorePages(data) == GamesLen(data.games) < data.count

\* the test on the count of the first page in get_all_games
Truncated(data) == data.count >= INFINITY

\* _ensure_login that logs in whenever memory holds no token
EnsureBranch_NoFile(v, force, at, exp, clock) ==
    IF force \/ at = None THEN "login"
    ELSE IF exp <= clock THEN "refresh"
    ELSE "return"

\* _ensure_login that takes the default expiry for no expiry at all
EnsureBranch_NoExpiry(v, force, at, exp, clock) ==
    IF v = "async"
    THEN IF force THEN "login"
         ELSE IF at = None THEN "file"
         ELSE IF exp # DatetimeMin /\ exp <= clock THEN "refresh"
         ELSE "return"
    ELSE IF force \/ at = None THEN "login"
         ELSE IF exp # DatetimeMin /\ exp <= clock THEN "refresh"
         ELSE "return"

\* _ensure_login that still trusts a token at the second it expires
EnsureBranch_Strict(v, force, at, exp, clock) ==
    IF v = "async"
    THEN IF force THEN "login"
         ELSE IF at = None THEN "file"
         ELSE IF exp < clock THEN "refresh"
         ELSE "return"
    ELSE IF force \/ at = None THEN "login"
         ELSE IF exp < clock THEN "refresh"
         ELSE "return"

\* _ensure_login that refreshes a token one second before it expires
EnsureBranch_Eager(v, force, at, exp, clock) ==
    IF v = "async"
    THEN IF force THEN "login"
         ELSE IF at = None THEN "file"
         ELSE IF exp <= clock + 1 THEN "refresh"
         ELSE "return"
    ELSE IF force \/ at = None THEN "login"
         ELSE IF exp <= clock + 1 THEN "refresh"
         ELSE "return"

\* the branch _ensure_login takes
EnsureBranch(v, force, at, exp, clock) ==
    IF v = "async"
    THEN IF force THEN "login"
         ELSE IF at = None THEN "file"
         ELSE IF exp <= clock THEN "refresh"
         ELSE "return"
    ELSE IF force \/ at = None THEN "login"
         ELSE IF exp <= clock THEN "refresh"
         ELSE "return"

\* a GET branch that forgets allow_retry
GetBranch_AlwaysRelogin(status, allow_retry) ==
    IF status = 401 THEN "relogin"
    ELSE IF status = 429 THEN "ratelimit"
    ELSE IF status >= 400 THEN "raise"
    ELSE "ok"

\* what the GET branch of _do_api_call does with the status of the answer
GetBranch(status, allow_retry) ==
    IF status = 401 /\ allow_retry THEN "relogin"
    ELSE IF status = 429 THEN "ratelimit"
    ELSE IF status >= 400 THEN "raise"
    ELSE "ok"

\* a backoff wrapper that catches nothing
BackoffRetries_Never(kind) == FALSE

\* backoff.on_exception(backoff.expo, BayesRateLimitException): re-invoke or give up
BackoffRetries(kind) == kind = "RateLimit"

\* an except clause that lets the 500 of the login through
LoginError_Transport(status) == "HTTPError"

\* the except clause around the login exchange in _ensure_login
LoginError(status) == IF status = 500 THEN "BadAPIKey" ELSE "HTTPError"

\* the except clause around the refresh exchange in _ensure_login
RefreshError(v, status) ==
    IF v = "async" /\ status = 500 THEN "relogin" ELSE "HTTPError"

\* a check of ensure_keys written with any() for all()
HasKeys_Some(body, ensure_keys) ==
    ensure_keys = {} \/ \E key \in ensure_keys : key \in body.keys

\* a check of ensure_keys that accepts every body
HasKeys_Any(body, ensure_keys) == TRUE

\* the check of ensure_keys at the end of _do_api_call
HasKeys(body, ensure_keys) == \A key \in ensure_keys : key \in body.keys

----------------------------------------------------------------------------
(* Control flow shared by the steps. *)

\* a get_game that turns every HTTP error into BadRequest
Raise_AnyStatus(f, kind, status) ==
    IF f.service = Service.GAME /\ kind = "HTTPError"
    THEN [f EXCEPT !.pc = "done",
                   !.outcome = [kind |-> "BadRequest", status |-> status],
                   !.exc = [NoExc EXCEPT !.args = <<f.rpgid>>]]
    ELSE [f EXCEPT !.pc = "done", !.outcome = [kind |-> kind, status |-> status]]

\* an exception leaves the operation; the except clause of get_game turns the
\* HTTP error 404 of its _do_api_call into BadRequest
Raise(f, kind, status) ==
    IF f.service = Service.GAME /\ kind = "HTTPError" /\ status = 404
    THEN [f EXCEPT !.pc = "done",
                   !.outcome = [kind |-> "BadRequest", status |-> status],
                   !.exc = [NoExc EXCEPT !.args = <<f.rpgid>>]]
    ELSE [f EXCEPT !.pc = "done", !.outcome = [kind |-> kind, status |-> status]]

\* BayesUnexpectedResponseException(service, response) is raised
RaiseUnexpected(f, service, response) ==
    [f EXCEPT !.pc = "done",
              !.outcome = [kind |-> "UnexpectedResponse", status |-> 200],
              !.exc = [NoExc EXCEPT !.service = service, !.response = response]]

\* _do_api_call is entered for a new logical call
Call(f, service) ==
    [f EXCEPT !.pc = "ensure", !.service = service, !.force = FALSE,
              !.cont = "headers", !.allow_retry = TRUE, !.depth = 0,
              !.checked = FALSE, !.log = <<>>]

\* a backoff wrapper that re-invokes the outermost _do_api_call
Reinvoke_Outer(f) ==
    [f EXCEPT !.pc = "ensure", !.force = FALSE, !.cont = "headers", !.depth = 0,
              !.checked = FALSE, !.allow_retry = TRUE]

\* the backoff wrapper re-invokes _do_api_call with the arguments of this invocation
Reinvoke(f) ==
    [f EXCEPT !.pc = "ensure", !.force = FALSE, !.cont = "headers", !.depth = 0,
              !.checked = FALSE]

\* _ensure_login calls itself
Recurse(f, force) ==
    IF f.depth + 1 >= MaxDepth
    THEN Raise(f, "RecursionError", 0)
    ELSE [f EXCEPT !.pc = "ensure", !.force = force, !.depth = f.depth + 1]

\* _ensure_login returns: to _get_headers, which sends the GET with the
\* token, or to the 401 branch, which calls _do_api_call(allow_retry=False)
EnsureReturn(f, token) ==
    IF f.cont = "headers"
    THEN [f EXCEPT !.pc = "get", !.bearer = token, !.checked = TRUE,
                   !.trace = Append(f.trace,
                                    [service |-> f.service, auth |-> TRUE,
                                     type |-> IF f.service = Service.ASSET
                                              THEN f.asset ELSE None]),
                   !.reqTags = IF f.service = Service.GAMES THEN f.ftags ELSE <<None>>,
                   !.reqPage = IF f.service = Service.GAMES THEN f.page ELSE 0]
    ELSE [f EXCEPT !.pc = "ensure", !.force = FALSE, !.cont = "headers",
                   !.allow_retry = FALSE, !.depth = 0, !.checked = FALSE]

\* _save_login that writes the local time of expiry as it is
save_login_Local(at, rt, exp) ==
    [state |-> "ok", keys |-> LoginKeys, at |-> at, rt |-> rt, exp |-> exp]

\* a POST branch that sends the headers of _get_headers
PostSent_WithHeaders(f, service) ==
    [f EXCEPT !.pc = IF service = Service.LOGIN THEN "login" ELSE "refresh",
              !.trace = Append(f.trace, [service |-> service, auth |-> TRUE,
                                         type |-> None])]

\* the POST branch of _do_api_call sends the login or the refresh request:
\* session.post(ENDPOINT + service, json=data)
PostSent(f, service) ==
    [f EXCEPT !.pc = IF service = Service.LOGIN THEN "login" ELSE "refresh",
              !.trace = Append(f.trace, [service |-> service, auth |-> FALSE,
                                         type |-> None])]

\* AsyncBayesClient._save_login
save_login(at, rt, exp) ==
    [state |-> "ok", keys |-> LoginKeys, at |-> at, rt |-> rt, exp |-> Timestamp(exp)]

\* history: the exchanges of the logical call that is running, with their answers
Logged(f, req, status, body) ==
    [f EXCEPT !.log = Append(f.log, [req |-> req, status |-> status,
                                     allow |-> f.allow_retry, body |-> body])]

\* history: what is kept of the answer to a POST.  The answer to a failed
\* request has no body; a body with every key wanted goes into the session,
\* and only its keys are kept here
Received(status, body, wanted) ==
    IF status >= 400 THEN NoBody
    ELSE IF wanted \subseteq body.keys THEN [NoBody EXCEPT !.keys = body.keys]
    ELSE body

----------------------------------------------------------------------------
(* Initial states: a client as its constructor leaves it, and the file. *)

\* BaseBayesClient.__init__ / BayesClient.__init__: the sessions handed in
InitSessions ==
    { <<None, None, DatetimeMin>>,
      <<"a0", None, DatetimeMin>>,
      <<"a0", "r0", StartClock>>,
      <<"a0", "r0", StartClock + 1>>,
      <<"a0", None, StartClock + 1>> }

\* access tokens the server granted to the credentials of another instance:
\* SAVE_FILE is one path for every instance, and _save_login writes the
\* session without the username
OtherTokens == {"a9"}

\* what SAVE_FILE may hold when the client starts: nothing, or what another
\* instance has written or is writing
InitFiles ==
    { NoFile,
      EmptyFile,
      save_login("a9", "r9", StartClock),
      save_login("a9", "r9", MaxClock),
      [save_login("a9", "r9", MaxClock) EXCEPT !.keys = LoginKeys \ {"accessToken"}] }

InitClient ==
    /\ variant \in {"sync", "async"}
    /\ \E s \in InitSessions :
          /\ access_token = s[1]
          /\ refresh_token = s[2]
          /\ expires = s[3]
    /\ file \in IF variant = "async" THEN InitFiles ELSE {NoFile}
    /\ now = StartClock
    /\ calls = 0
    /\ nonpos = FALSE
    /\ fr = [k \in TaskIds |-> Frame0]

Init ==
    /\ InitClient
    /\ faults = MaxFaults
    /\ ntasks = 1

----------------------------------------------------------------------------
(* Steps. *)

Idle(k) == k \in 1..ntasks /\ fr[k].pc = "idle" /\ calls < MaxCalls

Started(k, f) ==
    /\ fr' = [fr EXCEPT ![k] = f]
    /\ calls' = calls + 1
    /\ UNCHANGED <<variant, access_token, refresh_token, expires, file, now,
                   faults, ntasks, nonpos>>

\* get_tags is called
get_tags(k) ==
    /\ Idle(k)
    /\ Started(k, Call([Frame0 EXCEPT !.op = "get_tags"], Service.TAGS))

\* get_game is called
get_game(k) ==
    /\ Idle(k)
    /\ \E rpgid \in RpgIds :
          Started(k, Call([Frame0 EXCEPT !.op = "get_game", !.rpgid = rpgid], Service.GAME))

\* get_games is called
get_games(k) ==
    /\ Idle(k)
    /\ \E a \in GamesArgs :
          Started(k, Call([Frame0 EXCEPT !.op = "get_games", !.args = a,
                                         !.params = get_games_params(a)],
                          Service.GAMES))

\* get_asset is called: it calls get_game
get_asset(k) ==
    /\ Idle(k)
    /\ \E rpgid \in RpgIds, asset \in AssetArgs :
          Started(k, Call([Frame0 EXCEPT !.op = "get_asset", !.rpgid = rpgid,
                                         !.asset = asset],
                          Service.GAME))

\* get_all_games is called: _validate_tags, then the first get_games
get_all_games(k) ==
    /\ Idle(k)
    /\ \E tag \in ArgTag, tags \in ArgTags :
          LET v == validate_tags(tag, tags)
              f == [Frame0 EXCEPT !.op = "get_all_games", !.tag = tag, !.tags = tags]
          IN  Started(k, IF v.raise
                         THEN Raise(f, "ValueError", 0)
                         ELSE Call([f EXCEPT !.ftags = v.tags, !.only_null = v.only_null,
                                             !.reqs = 1],
                                   Service.GAMES))

\* _ensure_login is entered: it returns, calls itself, fails on the file,
\* or sends the login or the refresh request
ensure_login(k) ==
    /\ k \in 1..ntasks
    /\ fr[k].pc = "ensure"
    /\ LET f == [fr[k] EXCEPT !.checkNow = now]
           branch == EnsureBranch(variant, f.force, access_token, expires, now)
       IN  CASE branch = "login" ->
                  /\ fr' = [fr EXCEPT ![k] = PostSent(f, Service.LOGIN)]
                  /\ UNCHANGED <<access_token, refresh_token, expires, file>>
             [] branch = "refresh" ->
                  /\ fr' = [fr EXCEPT ![k] = PostSent(f, Service.REFRESH)]
                  /\ UNCHANGED <<access_token, refresh_token, expires, file>>
             [] branch = "return" ->
                  /\ fr' = [fr EXCEPT ![k] = EnsureReturn(f, access_token)]
                  /\ UNCHANGED <<access_token, refresh_token, expires, file>>
             [] branch = "file" ->
                  /\ fr' = [fr EXCEPT ![k] = [f EXCEPT !.pc = "open"]]
                  /\ UNCHANGED <<access_token, refresh_token, expires, file>>
    /\ UNCHANGED <<variant, now, faults, calls, ntasks, nonpos>>

\* aopen(SAVE_FILE) has returned or raised FileNotFoundError
file_open(k) ==
    /\ k \in 1..ntasks
    /\ fr[k].pc = "open"
    /\ fr' = [fr EXCEPT ![k] = IF file.state = "missing"
                               THEN Recurse(fr[k], TRUE)
                               ELSE [fr[k] EXCEPT !.pc = "read"]]
    /\ UNCHANGED <<variant, access_token, refresh_token, expires, file, now,
                   faults, calls, ntasks, nonpos>>

\* f.read() has returned what the file holds now; json.loads
file_read(k) ==
    /\ k \in 1..ntasks
    /\ fr[k].pc = "read"
    /\ fr' = [fr EXCEPT ![k] = IF file.state # "ok"
                               THEN Raise(fr[k], "JSONDecodeError", 0)
                               ELSE [fr[k] EXCEPT !.pc = "loaded", !.loaded = file]]
    /\ UNCHANGED <<variant, access_token, refresh_token, expires, file, now,
                   faults, calls, ntasks, nonpos>>

\* the file is closed; _ensure_login goes on with the data it has read, up
\* to _save_login
file_loaded(k) ==
    /\ k \in 1..ntasks
    /\ fr[k].pc = "loaded"
    /\ LET f == fr[k]
           data == f.loaded
       IN  IF "expiresIn" \notin data.keys
           THEN /\ fr' = [fr EXCEPT ![k] = Raise(f, "KeyError", 0)]
                /\ UNCHANGED <<access_token, refresh_token, expires>>
           ELSE /\ expires' = FromTimestamp(data.exp)
                /\ IF expires' <= now
                   THEN /\ fr' = [fr EXCEPT ![k] = Recurse(f, FALSE)]
                        /\ UNCHANGED <<access_token, refresh_token>>
                   ELSE IF "accessToken" \notin data.keys
                   THEN /\ fr' = [fr EXCEPT ![k] = Raise(f, "KeyError", 0)]
                        /\ UNCHANGED <<access_token, refresh_token>>
                   ELSE IF "refreshToken" \notin data.keys
                   THEN /\ access_token' = data.at
                        /\ fr' = [fr EXCEPT ![k] = Raise(f, "KeyError", 0)]
                        /\ UNCHANGED refresh_token
                   ELSE /\ access_token' = data.at
                        /\ refresh_token' = data.rt
                        /\ fr' = [fr EXCEPT ![k] = [f EXCEPT !.pc = "save"]]
    /\ UNCHANGED <<variant, file, now, faults, calls, ntasks, nonpos>>

\* _save_login: aopen(SAVE_FILE, 'w+') has returned and has emptied the
\* file; json.dumps of the session as it is now
save_open(k) ==
    /\ k \in 1..ntasks
    /\ fr[k].pc = "save"
    /\ file' = EmptyFile
    /\ fr' = [fr EXCEPT ![k] = [fr[k] EXCEPT !.pc = "close",
                                  !.dump = save_login(access_token, refresh_token, expires)]]
    /\ UNCHANGED <<variant, access_token, refresh_token, expires, now,
                   faults, calls, ntasks, nonpos>>

\* _save_login: the file is written and closed; _ensure_login returns
save_close(k) ==
    /\ k \in 1..ntasks
    /\ fr[k].pc = "close"
    /\ file' = fr[k].dump
    /\ fr' = [fr EXCEPT ![k] = EnsureReturn([fr[k] EXCEPT !.dump = NoFile], access_token)]
    /\ UNCHANGED <<variant, access_token, refresh_token, expires, now,
                   faults, calls, ntasks, nonpos>>

\* _ensure_login has its session from the exchange: the asynchronous client
\* saves it, the synchronous client returns
Exchange(f, token) ==
    IF variant = "async" THEN [f EXCEPT !.pc = "save"] ELSE EnsureReturn(f, token)

\* the answers the server may give to a POST
PostStatuses == {200, 404, 429, 500}

Fault(bad) ==
    /\ bad => faults > 0
    /\ faults' = IF bad THEN faults - 1 ELSE faults

\* the login request is answered; the rest of _ensure_login runs
login_response(k) ==
    /\ k \in 1..ntasks
    /\ fr[k].pc = "login"
    /\ \E status \in PostStatuses, body \in TokenBodies :
          LET f == Logged(fr[k], "LOGIN", status, Received(status, body, LoginKeys))
          IN  /\ Fault(status # 200 \/ body.keys # LoginKeys)
              /\ IF status >= 400
                 THEN /\ fr' = [fr EXCEPT ![k] = Raise(f, LoginError(status), status)]
                      /\ UNCHANGED <<access_token, refresh_token, expires, file, nonpos>>
                 ELSE IF ~HasKeys(body, LoginKeys)
                 THEN /\ fr' = [fr EXCEPT ![k] = RaiseUnexpected(f, Service.LOGIN, body)]
                      /\ UNCHANGED <<access_token, refresh_token, expires, file, nonpos>>
                 ELSE /\ expires' = now + body.expiresIn
                      /\ access_token' = body.at
                      /\ refresh_token' = body.rt
                      /\ nonpos' = (nonpos \/ body.expiresIn <= 0)
                      /\ fr' = [fr EXCEPT ![k] = Exchange(f, access_token')]
                      /\ UNCHANGED file
    /\ UNCHANGED <<variant, now, calls, ntasks>>

\* the refresh request is answered; the rest of _ensure_login runs
refresh_response(k) ==
    /\ k \in 1..ntasks
    /\ fr[k].pc = "refresh"
    /\ \E status \in PostStatuses, body \in TokenBodies :
          LET f == Logged(fr[k], "REFRESH", status, Received(status, body, RefreshKeys(variant)))
          IN  /\ Fault(status # 200 \/ body.keys # LoginKeys)
              /\ IF status >= 400
                 THEN /\ fr' = [fr EXCEPT ![k] =
                                   IF RefreshError(variant, status) = "relogin"
                                   THEN Recurse(f, TRUE)
                                   ELSE Raise(f, "HTTPError", status)]
                      /\ UNCHANGED <<access_token, refresh_token, expires, file, nonpos>>
                 ELSE IF ~HasKeys(body, RefreshKeys(variant))
                 THEN /\ fr' = [fr EXCEPT ![k] = RaiseUnexpected(f, Service.REFRESH, body)]
                      /\ UNCHANGED <<access_token, refresh_token, expires, file, nonpos>>
                 ELSE /\ expires' = now + body.expiresIn
                      /\ access_token' = body.at
                      /\ refresh_token' = IF variant = "async" THEN body.rt ELSE refresh_token
                      /\ nonpos' = (nonpos \/ body.expiresIn <= 0)
                      /\ fr' = [fr EXCEPT ![k] = Exchange(f, access_token')]
                      /\ UNCHANGED file
    /\ UNCHANGED <<variant, now, calls, ntasks>>

\* the answers the server may give to a GET
GetStatuses == {200, 401, 404, 429, 500}

\* bodies of the answers to api/v1/games
GamesBodies ==
    [keys : {GetGamesResponse, GetGamesResponse \ {"count"}},
     count : Counts, games : Pages, tags : {<<>>}]

MapClean(games) == [i \in 1..Len(games) |-> clean_game(games[i])]

\* the return statement of get_all_games
ListResult(f) ==
    LET kept == SelectSeq(f.data.games, LAMBDA g : KeepGame(g, f.only_null))
        bad == {i \in 1..Len(kept) : ~GameHasKeys(kept[i])}
    IN  IF bad # {}
        THEN RaiseUnexpected(f, "game", kept[CHOOSE i \in bad : \A j \in bad : i <= j])
        ELSE [f EXCEPT !.pc = "done", !.outcome = [kind |-> "ok", status |-> 200],
                       !.resGames = MapClean(kept)]

\* the head of the while loop of get_all_games
ListLoop(f) ==
    IF MorePages(f.data)
    THEN Call([f EXCEPT !.reqs = f.reqs + 1], Service.GAMES)
    ELSE ListResult(f)

\* a loop that does not stop on an empty page
ListPage_NoBreak(f, body) ==
    IF f.page = 0
    THEN LET f1 == [f EXCEPT !.data = body]
         IN  IF Truncated(f1.data) THEN ListLoop([f1 EXCEPT !.page = 1]) ELSE ListResult(f1)
    ELSE ListLoop([f EXCEPT !.data.games = f.data.games \o body.games,
                            !.page = f.page + 1])

\* get_all_games after a get_games has returned
ListPage(f, body) ==
    IF f.page = 0
    THEN LET f1 == [f EXCEPT !.data = body]
         IN  IF Truncated(f1.data) THEN ListLoop([f1 EXCEPT !.page = 1]) ELSE ListResult(f1)
    ELSE LET f1 == [f EXCEPT !.data.games = f.data.games \o body.games]
         IN  IF body.games = <<>> THEN ListResult(f1)
             ELSE ListLoop([f1 EXCEPT !.page = f.page + 1])

\* get_asset that asks for the download URL of any kind
AssetCheck_Skipped(f, game) == Call(f, Service.ASSET)

\* get_asset after its get_game has returned: the kind must be offered, then
\* the download URL is requested
AssetCheck(f, game) ==
    IF ~InSeq(f.asset, game.assets)
    THEN [f EXCEPT !.pc = "done",
                   !.outcome = [kind |-> "BadRequest", status |-> 200],
                   !.exc = [NoExc EXCEPT !.args = <<f.rpgid, f.asset>>]]
    ELSE Call(f, Service.ASSET)

\* get_game after _do_api_call has returned
GameResult(f, game) ==
    IF ~GameHasKeys(game)
    THEN RaiseUnexpected(f, "game", game)
    ELSE IF f.op = "get_asset"
    THEN AssetCheck([f EXCEPT !.game = <<clean_game(game)>>], clean_game(game))
    ELSE [f EXCEPT !.pc = "done", !.outcome = [kind |-> "ok", status |-> 200],
                   !.resGames = <<clean_game(game)>>]

\* get_tags after _do_api_call has returned
TagsResult(f, tags) ==
    [f EXCEPT !.pc = "done", !.outcome = [kind |-> "ok", status |-> 200],
              !.resTags = SPECIAL_TAGS \o tags]

\* the server holds a page back only while fewer than MaxPages were requested
PageAllowed(f, body) ==
    \/ f.page = 0
    \/ f.reqs < MaxPages
    \/ body.games = <<>>
    \/ GamesLen(f.data.games \o body.games) >= f.data.count

\* the GET is answered with an error status, or with 401 or 429
get_error(k) ==
    /\ k \in 1..ntasks
    /\ fr[k].pc = "get"
    /\ \E status \in GetStatuses \ {200} :
          LET f == Logged(fr[k], "GET", status, NoBody)
              branch == GetBranch(status, f.allow_retry)
          IN  /\ Fault(TRUE)
              /\ fr' = [fr EXCEPT ![k] =
                    CASE branch = "relogin" ->
                            [f EXCEPT !.pc = "ensure", !.force = TRUE, !.cont = "retry",
                                      !.depth = 0, !.checked = FALSE]
                      [] branch = "ratelimit" ->
                            IF BackoffRetries("RateLimit") THEN Reinvoke(f)
                            ELSE Raise(f, "RateLimit", status)
                      [] OTHER -> Raise(f, "HTTPError", status)]
    /\ UNCHANGED <<variant, access_token, refresh_token, expires, file, now,
                   calls, ntasks, nonpos>>

\* api/v1/tags answers 200
tags_response(k) ==
    /\ k \in 1..ntasks
    /\ fr[k].pc = "get"
    /\ fr[k].service = Service.TAGS
    /\ \E tags \in TagLists :
          fr' = [fr EXCEPT ![k] = TagsResult(Logged(fr[k], "GET", 200, [NoBody EXCEPT !.tags = tags]), tags)]
    /\ UNCHANGED <<variant, access_token, refresh_token, expires, file, now,
                   faults, calls, ntasks, nonpos>>

\* api/v1/games/{rpgid} answers 200
game_response(k) ==
    /\ k \in 1..ntasks
    /\ fr[k].pc = "get"
    /\ fr[k].service = Service.GAME
    /\ \E game \in IF fr[k].op = "get_asset" THEN AssetGames ELSE SingleGames :
          /\ Fault(~GameHasKeys(game))
          /\ fr' = [fr EXCEPT ![k] = GameResult(Logged(fr[k], "GET", 200, [NoBody EXCEPT !.games = <<game>>]), game)]
    /\ UNCHANGED <<variant, access_token, refresh_token, expires, file, now,
                   calls, ntasks, nonpos>>

\* a get_asset that sends the token along to the signed URL
asset_fetch_Authenticated(f, body) ==
    [f EXCEPT !.pc = "fetch", !.url = body.url,
              !.trace = Append(f.trace, [service |-> body.url, auth |-> TRUE, type |-> None])]

\* get_asset after the download URL has arrived: session.get(data['url'])
asset_fetch(f, body) ==
    [f EXCEPT !.pc = "fetch", !.url = body.url,
              !.trace = Append(f.trace, [service |-> body.url, auth |-> FALSE, type |-> None])]

\* api/v1/games/{rpgid}/download answers 200
asset_response(k) ==
    /\ k \in 1..ntasks
    /\ fr[k].pc = "get"
    /\ fr[k].service = Service.ASSET
    /\ \E body \in UrlBodies :
          LET f == Logged(fr[k], "GET", 200, body)
          IN  /\ Fault(body.keys # {"url"})
              /\ fr' = [fr EXCEPT ![k] =
                           IF HasKeys(body, {"url"})
                           THEN asset_fetch(f, body)
                           ELSE RaiseUnexpected(f, Service.ASSET, body)]
    /\ UNCHANGED <<variant, access_token, refresh_token, expires, file, now,
                   calls, ntasks, nonpos>>

\* the signed URL answers; get_asset returns the bytes whatever the status
content_response(k) ==
    /\ k \in 1..ntasks
    /\ fr[k].pc = "fetch"
    /\ \E status \in GetStatuses, bytes \in Contents :
          /\ Fault(status # 200)
          /\ fr' = [fr EXCEPT ![k] =
                       [Logged(fr[k], "FETCH", status, [NoBody EXCEPT !.keys = {bytes}])
                           EXCEPT !.pc = "done",
                                  !.outcome = [kind |-> "ok", status |-> status],
                                  !.resBytes = bytes]]
    /\ UNCHANGED <<variant, access_token, refresh_token, expires, file, now,
                   calls, ntasks, nonpos>>

\* api/v1/games answers 200
games_response(k) ==
    /\ k \in 1..ntasks
    /\ fr[k].pc = "get"
    /\ fr[k].service = Service.GAMES
    /\ \E body \in GamesBodies :
          LET f == Logged(fr[k], "GET", 200, body)
          IN  /\ PageAllowed(f, body)
              /\ Fault(body.keys # GetGamesResponse
                       \/ \E i \in 1..Len(body.games) : ~GameHasKeys(body.games[i]))
              /\ fr' = [fr EXCEPT ![k] =
                           IF HasKeys(body, GetGamesResponse)
                           THEN IF f.op = "get_games"
                                THEN [f EXCEPT !.pc = "done", !.data = body,
                                               !.outcome = [kind |-> "ok", status |-> 200]]
                                ELSE ListPage(f, body)
                           ELSE RaiseUnexpected(f, Service.GAMES, body)]
    /\ UNCHANGED <<variant, access_token, refresh_token, expires, file, now,
                   calls, ntasks, nonpos>>

\* the caller has the result or the exception
finish(k) ==
    /\ k \in 1..ntasks
    /\ fr[k].pc = "done"
    /\ fr' = [fr EXCEPT ![k] = Frame0]
    /\ UNCHANGED <<variant, access_token, refresh_token, expires, file, now,
                   faults, calls, ntasks, nonpos>>

\* time passes
tick ==
    /\ now < MaxClock
    /\ now' = now + 1
    /\ UNCHANGED <<variant, access_token, refresh_token, expires, file,
                   faults, calls, ntasks, nonpos, fr>>

Machinery ==
    \/ \E k \in TaskIds : ensure_login(k)
    \/ \E k \in TaskIds : save_open(k)
    \/ \E k \in TaskIds : save_close(k)
    \/ \E k \in TaskIds : login_response(k)
    \/ \E k \in TaskIds : refresh_response(k)
    \/ \E k \in TaskIds : get_error(k)
    \/ \E k \in TaskIds : finish(k)
    \/ tick

\* the steps of _ensure_login on the persisted session, which it takes
\* only when the client has no access token
Adoption ==
    \/ \E k \in TaskIds : file_open(k)
    \/ \E k \in TaskIds : file_read(k)
    \/ \E k \in TaskIds : file_loaded(k)

Operations ==
    \/ \E k \in TaskIds : get_tags(k)
    \/ \E k \in TaskIds : get_game(k)
    \/ \E k \in TaskIds : tags_response(k)
    \/ \E k \in TaskIds : game_response(k)
    \/ Machinery

Next == Operations \/ Adoption

Spec == Init /\ [][Next]_vars

----------------------------------------------------------------------------
(* The operations that return games, on a client that starts with a valid   *)
(* session, with a server that misbehaves at most once.                    *)

InitGames ==
    /\ variant \in {"sync", "async"}
    /\ access_token = "a0"
    /\ refresh_token = "r0"
    /\ expires = MaxClock
    /\ file = NoFile
    /\ now = MaxClock - 1
    /\ calls = MaxCalls - 1
    /\ nonpos = FALSE
    /\ fr = [k \in TaskIds |-> Frame0]
    /\ faults = 1
    /\ ntasks = 1

NextGames ==
    \/ \E k \in TaskIds : get_all_games(k)
    \/ \E k \in TaskIds : get_game(k)
    \/ \E k \in TaskIds : game_response(k)
    \/ \E k \in TaskIds : games_response(k)
    \/ Machinery

SpecGames == InitGames /\ [][NextGames]_vars

----------------------------------------------------------------------------
(* get_asset and get_game, on a client that starts with a valid session.   *)

InitAsset ==
    /\ variant \in {"sync", "async"}
    /\ access_token = "a0"
    /\ refresh_token = "r0"
    /\ expires = MaxClock
    /\ file = NoFile
    /\ now = MaxClock - 1
    /\ calls = MaxCalls - 1
    /\ nonpos = FALSE
    /\ fr = [k \in TaskIds |-> Frame0]
    /\ faults = MaxFaults
    /\ ntasks = 1

NextAsset ==
    \/ \E k \in TaskIds : get_asset(k)
    \/ \E k \in TaskIds : get_game(k)
    \/ \E k \in TaskIds : game_response(k)
    \/ \E k \in TaskIds : asset_response(k)
    \/ \E k \in TaskIds : content_response(k)
    \/ Machinery

SpecAsset == InitAsset /\ [][NextAsset]_vars

----------------------------------------------------------------------------
(* get_games alone, on a client that starts with a valid session.          *)

NextParams ==
    \/ \E k \in TaskIds : get_games(k)
    \/ \E k \in TaskIds : games_response(k)
    \/ Machinery

SpecParams == InitGames /\ [][NextParams]_vars

----------------------------------------------------------------------------
(* get_tags on a client that starts with a valid session, with a server    *)
(* that has two bad answers more to give.                                  *)

InitRetry ==
    /\ variant \in {"sync", "async"}
    /\ access_token = "a0"
    /\ refresh_token = "r0"
    /\ expires = MaxClock
    /\ file = NoFile
    /\ now = MaxClock - 1
    /\ calls = MaxCalls - 1
    /\ nonpos = FALSE
    /\ fr = [k \in TaskIds |-> Frame0]
    /\ faults = MaxFaults + 2
    /\ ntasks = 1

NextRetry ==
    \/ \E k \in TaskIds : get_tags(k)
    \/ \E k \in TaskIds : tags_response(k)
    \/ Machinery

SpecRetry == InitRetry /\ [][NextRetry]_vars

----------------------------------------------------------------------------
(* The first call of a client constructed with an access token and the      *)
(* default expiry.                                                          *)

InitNoExpiry ==
    /\ variant \in {"sync", "async"}
    /\ access_token = "a0"
    /\ refresh_token \in {None, "r0"}
    /\ expires = DatetimeMin
    /\ file \in IF variant = "async" THEN InitFiles ELSE {NoFile}
    /\ now = StartClock
    /\ calls = MaxCalls - 1
    /\ nonpos = FALSE
    /\ fr = [k \in TaskIds |-> Frame0]
    /\ faults = MaxFaults
    /\ ntasks = 1

SpecNoExpiry == InitNoExpiry /\ [][Operations]_vars

----------------------------------------------------------------------------
(* Two tasks call get_tags on one asynchronous client whose session is     *)
(* absent or expired.  A task runs from one await to the next; the event   *)
(* loop may run the other task at each await.  The server answers every    *)
(* request well.                                                           *)

InitTasks ==
    /\ variant = "async"
    /\ \E s \in {<<None, None, DatetimeMin>>, <<"a0", "r0", StartClock>>} :
          /\ access_token = s[1]
          /\ refresh_token = s[2]
          /\ expires = s[3]
    /\ file = NoFile
    /\ now = StartClock
    /\ calls = MaxCalls - Cardinality(TaskIds)
    /\ nonpos = FALSE
    /\ fr = [k \in TaskIds |-> Frame0]
    /\ faults = 0
    /\ ntasks = Cardinality(TaskIds)

NextTasks ==
    \/ \E k \in TaskIds : get_tags(k)
    \/ \E k \in TaskIds : tags_response(k)
    \/ \E k \in TaskIds : ensure_login(k)
    \/ \E k \in TaskIds : save_open(k)
    \/ \E k \in TaskIds : save_close(k)
    \/ \E k \in TaskIds : login_response(k)
    \/ \E k \in TaskIds : refresh_response(k)
    \/ \E k \in TaskIds : finish(k)
    \/ tick
    \/ Adoption

SpecTasks == InitTasks /\ [][NextTasks]_vars

----------------------------------------------------------------------------
(* The two clients side by side: the synchronous client (caller 1) and the  *)
(* asynchronous client without file (caller 2) make the same call from the *)
(* same session and get the same answers, one for each request they send,  *)
(* at the same clock readings.                                             *)

\* an answer of the server, dt seconds after the request; the lifetime it
\* grants ends when the clock moves
Answers ==
    [status : {200, 401, 429, 500},
     keys : {LoginKeys, LoginKeys \ {"refreshToken"}},
     at : {"a1"}, rt : {"r1"}, expiresIn : {1}, dt : {0, 1}]

Scripts == UNION {[1..n -> Answers] : n \in 0..MaxScript}

\* a client that is about to make a GET call
Client0 ==
    [at |-> access_token, rt |-> refresh_token, exp |-> expires, now |-> now,
     force |-> FALSE, cont |-> "headers", allow_retry |-> TRUE,
     pc |-> "ensure", log |-> <<>>, outcome |-> NoOutcome]

\* the answer r has arrived
Answered(c, req, r) ==
    [c EXCEPT !.now = c.now + r.dt,
              !.log = Append(c.log, [req |-> req, status |-> r.status,
                                     allow |-> c.allow_retry, body |-> NoBody])]

Ended(c, kind, status) ==
    [c EXCEPT !.pc = "done", !.outcome = [kind |-> kind, status |-> status]]

RECURSIVE Ensure(_, _, _)
RECURSIVE Returned(_, _, _)

\* _ensure_login of client v is entered, with the answers still to come
Ensure(v, c, script) ==
    LET branch == EnsureBranch(v, c.force, c.at, c.exp, c.now)
    IN  CASE branch = "file" -> Ensure(v, [c EXCEPT !.force = TRUE], script)
          [] branch = "return" -> Returned(v, c, script)
          [] branch = "login" ->
                IF script = <<>> THEN [c EXCEPT !.pc = "login"]
                ELSE LET r == Head(script)
                         c1 == Answered(c, "LOGIN", r)
                     IN  IF r.status >= 400 THEN Ended(c1, LoginError(r.status), r.status)
                         ELSE IF ~HasKeys(r, LoginKeys)
                         THEN Ended(c1, "UnexpectedResponse", r.status)
                         ELSE Returned(v, [c1 EXCEPT !.at = r.at, !.rt = r.rt,
                                                     !.exp = c1.now + r.expiresIn],
                                       Tail(script))
          [] branch = "refresh" ->
                IF script = <<>> THEN [c EXCEPT !.pc = "refresh"]
                ELSE LET r == Head(script)
                         c1 == Answered(c, "REFRESH", r)
                     IN  IF r.status >= 400
                         THEN IF RefreshError(v, r.status) = "relogin"
                              THEN Ensure(v, [c1 EXCEPT !.force = TRUE], Tail(script))
                              ELSE Ended(c1, "HTTPError", r.status)
                         ELSE IF ~HasKeys(r, RefreshKeys(v))
                         THEN Ended(c1, "UnexpectedResponse", r.status)
                         ELSE Returned(v, [c1 EXCEPT !.at = r.at,
                                                     !.rt = IF v = "async" THEN r.rt ELSE c.rt,
                                                     !.exp = c1.now + r.expiresIn],
                                       Tail(script))

\* _ensure_login of client v returns: to the 401 branch, which calls
\* _do_api_call again, or to _get_headers, and the GET is sent
Returned(v, c, script) ==
    IF c.cont = "retry"
    THEN Ensure(v, [c EXCEPT !.force = FALSE, !.cont = "headers", !.allow_retry = FALSE],
                script)
    ELSE IF script = <<>> THEN [c EXCEPT !.pc = "get"]
    ELSE LET r == Head(script)
             c1 == Answered(c, "GET", r)
             branch == GetBranch(r.status, c.allow_retry)
         IN  CASE branch = "relogin" ->
                    Ensure(v, [c1 EXCEPT !.force = TRUE, !.cont = "retry"], Tail(script))
               [] branch = "ratelimit" ->
                    IF BackoffRetries("RateLimit")
                    THEN Ensure(v, [c1 EXCEPT !.force = FALSE, !.cont = "headers"],
                                Tail(script))
                    ELSE Ended(c1, "RateLimit", r.status)
               [] branch = "raise" -> Ended(c1, "HTTPError", r.status)
               [] OTHER -> Ended(c1, "ok", r.status)

\* what the caller of client v sees of get_tags once the answers are used up
Replayed(v, script) ==
    LET c == Ensure(v, Client0, script)
    IN  [Frame0 EXCEPT !.op = "get_tags", !.service = Service.TAGS, !.pc = c.pc,
                       !.force = c.force, !.cont = c.cont, !.allow_retry = c.allow_retry,
                       !.log = c.log, !.outcome = c.outcome]

\* both clients make the call and get the answers of one script
replay ==
    /\ \A k \in TaskIds : fr[k].pc = "idle"
    /\ \E script \in Scripts :
          fr' = [k \in TaskIds |-> Replayed(IF k = 1 THEN "sync" ELSE "async", script)]
    /\ UNCHANGED <<variant, access_token, refresh_token, expires, file, now,
                   faults, calls, ntasks, nonpos>>

InitEquiv ==
    /\ variant = "both"
    /\ \E s \in InitSessions :
          /\ access_token = s[1]
          /\ refresh_token = s[2]
          /\ expires = s[3]
    /\ file = NoFile
    /\ now = StartClock
    /\ calls = 0
    /\ nonpos = FALSE
    /\ fr = [k \in TaskIds |-> Frame0]
    /\ faults = MaxFaults
    /\ ntasks = Cardinality(TaskIds)

NextEquiv == replay

SpecEquiv == InitEquiv /\ [][NextEquiv]_vars

----------------------------------------------------------------------------
(* Properties. *)

Last(s) == s[Len(s)]

\* the filter a caller of get_all_games asks for: tags followed by tag
Merged(tag, tags) ==
    (IF tags = <<None>> THEN <<>> ELSE tags) \o (IF tag = None THEN <<>> ELSE <<tag>>)

\* the tag list a caller must see for a game received with these tags
Norm(tags) == IF tags = <<>> THEN <<"NULL">> ELSE tags

Unauthorized(e, allow) == e.req = "GET" /\ e.status = 401 /\ e.allow = allow

RateLimited(e) == e.req = "GET" /\ e.status = 429

\* C1: in a GET call, a 401 received with allow_retry is followed by the forced
\* login and, when that login succeeds, by the same request with allow_retry
\* false; it happens once in a call, every other login of the call is the
\* fallback of a refresh answered 500, and a 401 received without allow_retry
\* is the last exchange of the call, which fails with the HTTP error 401.
C1_RetryOnce ==
    \A k \in TaskIds :
        LET f == fr[k]
            L == f.log
        IN  \A i \in 1..Len(L) :
              /\ Unauthorized(L[i], TRUE) =>
                   /\ i = Len(L) => f.pc \in {"ensure", "login"} /\ f.force /\ f.cont = "retry"
                   /\ i < Len(L) => L[i + 1].req = "LOGIN"
                   /\ (i + 1 = Len(L) /\ f.pc \notin {"done", "save", "close"}) =>
                         ~f.allow_retry
                   /\ \A j \in 1..Len(L) :
                        /\ (j < i /\ L[j].req = "GET") => L[j].allow
                        /\ (j > i /\ L[j].req = "GET") => ~L[j].allow
                        /\ (j > i + 1 /\ L[j].req = "LOGIN") =>
                              L[j - 1].req = "REFRESH" /\ L[j - 1].status = 500
              /\ Unauthorized(L[i], FALSE) =>
                   /\ i = Len(L)
                   /\ f.pc = "done"
                   /\ f.outcome = [kind |-> "HTTPError", status |-> 401]

\* C1 witness: 401, forced login, retry, 401 again, failure
C1_Witness ==
    \E k \in TaskIds :
        /\ fr[k].pc = "done"
        /\ fr[k].outcome = [kind |-> "HTTPError", status |-> 401]
        /\ Len(fr[k].log) = 3
        /\ Unauthorized(fr[k].log[1], TRUE)
        /\ fr[k].log[2].req = "LOGIN" /\ fr[k].log[2].status = 200
        /\ Unauthorized(fr[k].log[3], FALSE)

\* C2: _ensure_login terminates: it calls itself at most once (the corrective
\* login) and never runs into the recursion limit.
C2_Terminates ==
    \A k \in TaskIds : fr[k].depth <= 1 /\ fr[k].outcome.kind # "RecursionError"

\* C3: a GET in flight was sent after a session check, carries the current
\* access token, which is present, and, when every lifetime granted was
\* positive, the session expires after the clock reading of that check.
C3_ValidBearer ==
    \A k \in TaskIds :
        fr[k].pc = "get" =>
            /\ fr[k].checked
            /\ fr[k].bearer = access_token
            /\ fr[k].bearer # None
            /\ ~nonpos => expires > fr[k].checkNow

\* C3 witness: a GET sent with a token that this call obtained by an exchange
C3_Witness ==
    \E k \in TaskIds :
        /\ fr[k].pc = "get"
        /\ ~nonpos
        /\ fr[k].log # <<>>
        /\ Last(fr[k].log).req \in {"LOGIN", "REFRESH"}
        /\ fr[k].bearer \in AccessTokens

\* C4: while _ensure_login(False) is entered with a token that has not
\* expired, no step changes the session or the file or sends a login or a
\* refresh request.
C4_Idempotent ==
    [][\A k \in TaskIds :
          (fr[k].pc = "ensure" /\ ~fr[k].force /\ access_token # None /\ expires > now) =>
             /\ UNCHANGED <<access_token, refresh_token, expires, file>>
             /\ fr'[k].log = fr[k].log
             /\ fr'[k].pc \notin {"login", "refresh"}]_vars

\* C4 witness: after a 429 the call ran the session check a second time and
\* sent its GET again without any exchange
C4_Witness ==
    \E k \in TaskIds :
        /\ fr[k].pc = "get"
        /\ Len(fr[k].log) = 1
        /\ RateLimited(fr[k].log[1])
        /\ expires > now

\* C5: a login answered 500 is the last exchange of the call, which fails
\* with BayesBadAPIKeyException.
C5_BadCredentials ==
    \A k \in TaskIds :
        \A i \in 1..Len(fr[k].log) :
            (fr[k].log[i].req = "LOGIN" /\ fr[k].log[i].status = 500) =>
                /\ i = Len(fr[k].log)
                /\ fr[k].pc = "done"
                /\ fr[k].outcome.kind = "BadAPIKey"

\* C5 witness: the forced login after a 401 is answered 500
C5_Witness ==
    \E k \in TaskIds :
        /\ fr[k].pc = "done"
        /\ fr[k].outcome.kind = "BadAPIKey"
        /\ Len(fr[k].log) = 2
        /\ Unauthorized(fr[k].log[1], TRUE)

\* C6: BayesRateLimitException never reaches the caller; after a 429 the call
\* is entered again with the same allow_retry; and get_tags, once a GET is
\* answered 200, returns the body of that answer after the special tags.
C6_Backoff ==
    \A k \in TaskIds :
        LET f == fr[k]
            L == f.log
        IN  /\ f.outcome.kind # "RateLimit"
            /\ \A i \in 1..Len(L) :
                 (RateLimited(L[i]) /\ i = Len(L)) =>
                     /\ f.pc \in {"ensure", "refresh", "get"}
                     /\ ~f.force /\ f.cont = "headers"
                     /\ f.allow_retry = L[i].allow
            /\ (f.op = "get_tags" /\ L # <<>> /\ Last(L).req = "GET" /\ Last(L).status = 200) =>
                 /\ f.pc = "done"
                 /\ f.outcome.kind = "ok"
                 /\ f.resTags = SPECIAL_TAGS \o Last(L).body.tags

\* C6 witness: two 429 and then the 200 whose body is returned
C6_Witness ==
    \E k \in TaskIds :
        /\ fr[k].op = "get_tags"
        /\ fr[k].pc = "done"
        /\ fr[k].outcome.kind = "ok"
        /\ Len(fr[k].log) = 3
        /\ RateLimited(fr[k].log[1])
        /\ RateLimited(fr[k].log[2])
        /\ fr[k].resTags = <<"NULL", "ALL", "T1">>

Reserved(t) == t \in {"NULL", "ALL"}

\* C7: get_all_games with a reserved tag next to any other entry of the merged
\* filter raises ValueError before any request; with an empty merged filter or
\* exactly [ALL] it raises nothing and sends its requests without a tag filter.
C7_ReservedAlone ==
    \A k \in TaskIds :
        LET f == fr[k]
            m == Merged(f.tag, f.tags)
        IN  f.op = "get_all_games" =>
              /\ (Len(m) >= 2 /\ \E i \in 1..Len(m) : Reserved(m[i])) =>
                    /\ f.pc = "done"
                    /\ f.outcome.kind = "ValueError"
                    /\ f.log = <<>>
                    /\ f.reqs = 0
              /\ (m = <<>> \/ m = <<"ALL">>) =>
                    /\ f.outcome.kind # "ValueError"
                    /\ f.reqs >= 1
                    /\ f.pc = "get" => f.reqTags = <<None>>

\* C7 witness: ALL given next to an ordinary tag is refused
C7_Witness ==
    \E k \in TaskIds :
        /\ fr[k].op = "get_all_games"
        /\ fr[k].tag = "ALL"
        /\ fr[k].tags = <<"T1">>
        /\ fr[k].outcome.kind = "ValueError"

\* C8: the games get_game and get_all_games return have a tag list that is
\* not empty: [NULL] for a game received without tags, the received tags
\* otherwise.
C8_TagsNormalized ==
    \A k \in TaskIds :
        LET f == fr[k]
        IN  (f.pc = "done" /\ f.outcome.kind = "ok") =>
              /\ \A i \in 1..Len(f.resGames) : f.resGames[i].tags # <<>>
              /\ f.op = "get_game" =>
                    LET g == Last(f.log).body.games[1]
                    IN  f.resGames = <<[g EXCEPT !.tags = Norm(g.tags)]>>
              /\ (f.op = "get_all_games" /\ ~f.only_null) =>
                    /\ Len(f.resGames) = Len(f.data.games)
                    /\ \A i \in 1..Len(f.resGames) :
                          f.resGames[i] =
                             [f.data.games[i] EXCEPT !.tags = Norm(f.data.games[i].tags)]
              /\ (f.op = "get_all_games" /\ f.only_null) =>
                    \A i \in 1..Len(f.resGames) : f.resGames[i].tags = <<"NULL">>

\* C8 witness: a listing with a game without tags and a game with tags is returned
C8_Witness ==
    \E k \in TaskIds :
        /\ fr[k].op = "get_all_games"
        /\ fr[k].pc = "done"
        /\ fr[k].outcome.kind = "ok"
        /\ ~fr[k].only_null
        /\ \E i, j \in 1..Len(fr[k].data.games) :
              fr[k].data.games[i].tags = <<>> /\ fr[k].data.games[j].tags # <<>>

RECURSIVE OnlyUntagged(_)
\* the games received without tags, in order, each tagged NULL
OnlyUntagged(games) ==
    IF games = <<>> THEN <<>>
    ELSE IF Head(games).tags = <<>>
         THEN <<[Head(games) EXCEPT !.tags = <<"NULL">>]>> \o OnlyUntagged(Tail(games))
         ELSE OnlyUntagged(Tail(games))

\* C9: get_all_games asked for exactly [NULL] sends no tag filter and returns
\* the games received without tags, in the order received, each tagged [NULL].
C9_OnlyUntagged ==
    \A k \in TaskIds :
        LET f == fr[k]
        IN  (f.op = "get_all_games" /\ Merged(f.tag, f.tags) = <<"NULL">>) =>
              /\ f.outcome.kind # "ValueError"
              /\ f.pc = "get" => f.reqTags = <<None>>
              /\ (f.pc = "done" /\ f.outcome.kind = "ok") =>
                    f.resGames = OnlyUntagged(f.data.games)

\* C9 witness: pages holding tagged and untagged games were filtered
C9_Witness ==
    \E k \in TaskIds :
        /\ fr[k].op = "get_all_games"
        /\ fr[k].tags = <<"NULL">>
        /\ fr[k].tag = None
        /\ fr[k].pc = "done"
        /\ fr[k].outcome.kind = "ok"
        /\ fr[k].page >= 1
        /\ Len(fr[k].resGames) >= 2
        /\ Len(fr[k].resGames) < Len(fr[k].data.games)

C10_LoopInv(f) ==
    f.op = "get_all_games" =>
       /\ (f.page >= 1 /\ f.outcome.kind \in {"none", "ok"}) => Truncated(f.data)
       /\ (f.page >= 1 /\ f.pc # "done") => GamesLen(f.data.games) < f.data.count
       /\ (f.pc = "done" /\ f.outcome.kind = "ok") =>
             \/ f.page = 0 /\ ~Truncated(f.data) /\ f.reqs = 1
             \/ f.page >= 1 /\ GamesLen(f.data.games) >= f.data.count
             \/ f.page >= 1 /\ f.reqs >= 2 /\ Last(f.log).body.games = <<>>

C10_LoopStep ==
    \A k \in TaskIds :
        (fr[k].op = "get_all_games" /\ fr[k].page >= 1 /\ fr'[k].op = "get_all_games") =>
           /\ fr'[k].data.count = fr[k].data.count
           /\ fr'[k].reqs \in {fr[k].reqs, fr[k].reqs + 1}
           /\ fr'[k].reqs = fr[k].reqs + 1 =>
                 /\ fr'[k].page = fr[k].page + 1
                 /\ GamesLen(fr'[k].data.games) > GamesLen(fr[k].data.games)

\* C10: after a first page whose count is at least INFINITY, get_all_games
\* requests a page only while it holds fewer games than that count, and ends
\* when it holds that many or a page came back empty; every further request
\* follows a page that added at least one game, the count being fixed.
C10_Pagination ==
    /\ [](\A k \in TaskIds : C10_LoopInv(fr[k]))
    /\ [][C10_LoopStep]_vars

\* C10 witness: the loop ended on an empty page with fewer games than the count
C10_Witness ==
    \E k \in TaskIds :
        /\ fr[k].op = "get_all_games"
        /\ fr[k].pc = "done"
        /\ fr[k].outcome.kind = "ok"
        /\ fr[k].reqs >= 3
        /\ GamesLen(fr[k].data.games) < fr[k].data.count
        /\ Last(fr[k].log).body.games = <<>>

\* ceil(a / b)
Ceil(a, b) == (a + b - 1) \div b

\* C11 as claimed: one get_all_games issues at most ceil(count / INFINITY) + 1
\* listing requests.
C11_CallBound ==
    \A k \in TaskIds :
        fr[k].op = "get_all_games" =>
            fr[k].reqs <= Ceil(fr[k].data.count, INFINITY) + 1

\* C11 amended: one get_all_games issues at most count + 1 listing requests:
\* every request after the second follows a page that added a game, so the
\* requests are at most two more than the games held.
C11_CallBoundAmended ==
    \A k \in TaskIds :
        fr[k].op = "get_all_games" =>
            /\ fr[k].reqs <= fr[k].data.count + 1
            /\ fr[k].reqs <= GamesLen(fr[k].data.games) + 2

\* C11 witness: a third request after two short pages of a count of INFINITY
C11_Witness ==
    \E k \in TaskIds :
        /\ fr[k].op = "get_all_games"
        /\ fr[k].pc = "get"
        /\ fr[k].reqs = 3
        /\ fr[k].data.count = INFINITY
        /\ GamesLen(fr[k].data.games) = 4

\* the requests of an operation other than those of _ensure_login
Gets(trace) == SelectSeq(trace, LAMBDA t : t.service \notin {Service.LOGIN, Service.REFRESH})

\* the position of a request in get_asset: game fetch, download URL, content
Stage(t) == IF t.service = Service.GAME THEN 1
            ELSE IF t.service = Service.ASSET THEN 2
            ELSE 3

\* C12: when the kind asked of get_asset is not among the assets of the game
\* fetched, get_asset fails with BadRequest, the message is formatted from the
\* game id and the kind, and neither the download URL nor the content was
\* requested.
C12_UnofferedKind ==
    \A k \in TaskIds :
        LET f == fr[k]
        IN  (f.op = "get_asset" /\ f.game # <<>> /\ ~InSeq(f.asset, f.game[1].assets)) =>
                /\ f.pc = "done"
                /\ f.outcome.kind = "BadRequest"
                /\ f.exc.args = <<f.rpgid, f.asset>>
                /\ \A i \in 1..Len(Gets(f.trace)) : Stage(Gets(f.trace)[i]) = 1
                /\ f.url = None /\ f.resBytes = None

\* C12 witness: GAMH_SUMMARY asked of game g2, which offers GAMH_DETAILS only
C12_Witness ==
    \E k \in TaskIds :
        /\ fr[k].op = "get_asset"
        /\ fr[k].rpgid = "g2"
        /\ fr[k].asset = "GAMH_SUMMARY"
        /\ fr[k].game # <<>>
        /\ fr[k].game[1].assets = <<"GAMH_DETAILS">>
        /\ fr[k].outcome.kind = "BadRequest"

\* C13: the requests of one get_asset come in the order game fetch, download
\* URL, content; the first two carry the token and the download URL request
\* the kind as type; the content is requested once, from the URL received,
\* without token, only after a download URL answer with the key url for an
\* offered kind; whatever its status, its answer ends get_asset, which
\* returns the bytes received.
C13_AssetOrder ==
    \A k \in TaskIds :
        LET f == fr[k]
            T == Gets(f.trace)
            L == f.log
            fetches == {i \in 1..Len(T) : Stage(T[i]) = 3}
        IN  f.op = "get_asset" =>
              /\ \A i, j \in 1..Len(T) : i < j => Stage(T[i]) <= Stage(T[j])
              /\ \A i \in 1..Len(T) :
                    /\ Stage(T[i]) = 1 => T[i].auth /\ T[i].type = None
                    /\ Stage(T[i]) = 2 => T[i].auth /\ T[i].type = f.asset
                    /\ Stage(T[i]) = 3 => ~T[i].auth /\ T[i].service = f.url /\ i = Len(T)
              /\ Cardinality(fetches) <= 1
              /\ (\E i \in 1..Len(T) : Stage(T[i]) >= 2) =>
                    f.game # <<>> /\ InSeq(f.asset, f.game[1].assets)
              /\ (f.pc = "fetch" \/ fetches # {}) =>
                    /\ Len(T) >= 3 /\ Stage(T[Len(T) - 1]) = 2
                    /\ f.url \in Urls
                    /\ \E i \in 1..Len(L) :
                          /\ L[i].req = "GET" /\ L[i].status = 200
                          /\ "url" \in L[i].body.keys /\ L[i].body.url = f.url
                          /\ IF f.pc = "fetch" THEN i = Len(L)
                             ELSE i + 1 = Len(L) /\ L[i + 1].req = "FETCH"
              /\ \A i \in 1..Len(L) : L[i].req = "FETCH" =>
                    /\ i = Len(L)
                    /\ f.pc = "done"
                    /\ f.outcome = [kind |-> "ok", status |-> L[i].status]
                    /\ L[i].body.keys = {f.resBytes}
              /\ (f.pc = "done" /\ f.outcome.kind = "ok") =>
                    fetches # {} /\ Last(L).req = "FETCH" /\ f.resBytes \in Contents

\* C13 witness: the content was fetched when the token had expired and the
\* URL answered 401; get_asset returned the bytes
C13_Witness ==
    \E k \in TaskIds :
        /\ fr[k].op = "get_asset"
        /\ fr[k].pc = "done"
        /\ fr[k].outcome = [kind |-> "ok", status |-> 401]
        /\ expires <= now
        /\ Len(Gets(fr[k].trace)) = 3
        /\ fr[k].resBytes = "b2"

\* the exception _do_api_call raises for an answer with an error status
Propagated(e) ==
    IF e.req = "LOGIN" /\ e.status = 500
    THEN [kind |-> "BadAPIKey", status |-> e.status]
    ELSE [kind |-> "HTTPError", status |-> e.status]

\* C14: a get_game whose last answer is a 404 fails with BadRequest formatted
\* from the id asked for, and BadRequest comes from nothing else; after any
\* other error status get_game fails with what _do_api_call raised for it.
C14_NotFound ==
    \A k \in TaskIds :
        LET f == fr[k]
        IN  (f.op = "get_game" /\ f.pc = "done") =>
              /\ f.outcome.kind = "BadRequest" <=>
                    (f.log # <<>> /\ Last(f.log).status = 404)
              /\ f.outcome.kind = "BadRequest" => f.exc.args = <<f.rpgid>>
              /\ (f.log # <<>> /\ Last(f.log).status >= 400 /\ Last(f.log).status # 404) =>
                    f.outcome = Propagated(Last(f.log))

\* C14 witness: get_game of g2 answered 404
C14_Witness ==
    \E k \in TaskIds :
        /\ fr[k].op = "get_game"
        /\ fr[k].pc = "done"
        /\ fr[k].rpgid = "g2"
        /\ fr[k].log # <<>>
        /\ Last(fr[k].log).req = "GET" /\ Last(fr[k].log).status = 404
        /\ fr[k].outcome.kind = "BadRequest"

\* ensure_keys of the exchange an entry of the log stands for
Wanted(e, service) ==
    IF e.req = "LOGIN" THEN LoginKeys
    ELSE IF e.req = "REFRESH" THEN RefreshKeys(variant)
    ELSE IF service = Service.GAMES THEN GetGamesResponse
    ELSE IF service = Service.ASSET THEN {"url"}
    ELSE {}

\* the endpoint of the exchange an entry of the log stands for
Endpoint(e, service) ==
    IF e.req = "LOGIN" THEN Service.LOGIN
    ELSE IF e.req = "REFRESH" THEN Service.REFRESH
    ELSE service

\* C15: when the last answer of a call is a 200 whose body lacks a key of
\* ensure_keys, the call has failed with UnexpectedResponse, which carries the
\* endpoint and that body; when the body has every key (always, with no
\* ensure_keys) _do_api_call has returned it: the call goes on, or ends with
\* the result made from that body, or with the complaint of _clean_game.
C15_EnsureKeys ==
    \A k \in TaskIds :
        LET f == fr[k]
            e == Last(f.log)
            raised == f.pc = "done" /\ f.outcome.kind = "UnexpectedResponse"
                      /\ f.exc.service # "game"
        IN  (f.log # <<>> /\ e.req # "FETCH") =>
              /\ (e.status = 200 /\ ~(Wanted(e, f.service) \subseteq e.body.keys)) =>
                    /\ raised
                    /\ f.exc.service = Endpoint(e, f.service)
                    /\ f.exc.response = e.body
              /\ (e.status = 200 /\ Wanted(e, f.service) \subseteq e.body.keys) =>
                    /\ ~raised
                    /\ (f.pc = "done" /\ f.op = "get_tags") =>
                          f.outcome.kind = "ok" /\ f.resTags = SPECIAL_TAGS \o e.body.tags
                    /\ (f.pc = "done" /\ f.op = "get_game") =>
                          \/ f.outcome.kind = "ok" /\ f.resGames = MapClean(e.body.games)
                          \/ f.outcome.kind = "UnexpectedResponse"
                                /\ f.exc.response = e.body.games[1]
              /\ e.status # 200 => ~raised

\* C15 witness: the refresh of the asynchronous client answered without a
\* refresh token
C15_Witness ==
    \E k \in TaskIds :
        /\ fr[k].pc = "done"
        /\ fr[k].outcome.kind = "UnexpectedResponse"
        /\ fr[k].exc.service = Service.REFRESH
        /\ fr[k].exc.response.keys = LoginKeys \ {"refreshToken"}
        /\ fr[k].exc.response.at = "a2"

\* the login or refresh exchange of this entry of the log has succeeded
Exchanged(e) ==
    /\ e.req \in {"LOGIN", "REFRESH"}
    /\ e.status = 200
    /\ Wanted(e, None) \subseteq e.body.keys

\* C16: in the asynchronous client, from a successful login or refresh
\* exchange on, the file holds the access token, the refresh token and the
\* expiry, in seconds since the epoch, of the session in memory, and reading
\* the file back gives that expiry.
C16_FileAgrees ==
    \A k \in TaskIds :
        (/\ variant = "async"
         /\ fr[k].pc \notin {"save", "close"}
         /\ \E i \in 1..Len(fr[k].log) : Exchanged(fr[k].log[i])) =>
            /\ file = [state |-> "ok", keys |-> LoginKeys, at |-> access_token,
                        rt |-> refresh_token, exp |-> expires - UtcOffset]
            /\ FromTimestamp(file.exp) = expires
            /\ access_token \in AccessTokens /\ refresh_token \in RefreshTokens

\* C16 witness: _ensure_login has returned after a refresh and the GET is sent
C16_Witness ==
    \E k \in TaskIds :
        /\ variant = "async"
        /\ fr[k].pc = "get"
        /\ fr[k].log # <<>>
        /\ Exchanged(Last(fr[k].log))
        /\ Last(fr[k].log).req = "REFRESH"
        /\ file.at = "a2" /\ file.rt = "r1"

\* SAVE_FILE cannot be decoded, or lacks a field of the session
Corrupt(fl) ==
    \/ fl.state = "undecodable"
    \/ fl.state = "ok" /\ ~(LoginKeys \subseteq fl.keys)

\* C17: in the asynchronous client, a call that found no token in memory and
\* a missing or corrupt file has ended only after a login exchange, and not
\* with the error of reading the file.
C17_CorruptFile ==
    \A k \in TaskIds :
        (variant = "async" /\ fr[k].pc = "done" /\ access_token = None
            /\ (file.state = "missing" \/ Corrupt(file))) =>
                /\ fr[k].log # <<>>
                /\ fr[k].log[1].req = "LOGIN"
                /\ fr[k].outcome.kind \notin {"JSONDecodeError", "KeyError"}

\* C19: a refresh answered 500 is followed by a login exchange and does not
\* end the call: its error is not what the caller gets.
C19_RefreshFallback ==
    \A k \in TaskIds :
        LET f == fr[k]
            L == f.log
        IN  \A i \in 1..Len(L) :
              (L[i].req = "REFRESH" /\ L[i].status = 500) =>
                  /\ i < Len(L) => L[i + 1].req = "LOGIN"
                  /\ i = Len(L) => f.pc \in {"ensure", "login"} /\ f.force

\* C20: no refresh request is sent while the session holds no refresh token.
C20_NoRefreshToken ==
    \A k \in TaskIds : fr[k].pc = "refresh" => refresh_token # None

\* C18: started from the same session without file and given the same
\* answers, the synchronous and the asynchronous client have sent the same
\* requests, are at the same point of the call, and have the same result.
C18_Equivalent ==
    /\ fr[1].log = fr[2].log
    /\ fr[1].pc = fr[2].pc
    /\ fr[1].outcome = fr[2].outcome

C22_NextPages ==
    \A k \in TaskIds :
        (fr[k].op = "get_all_games" /\ fr[k].pc = "get" /\ fr[k].reqs >= 2) =>
            /\ fr[k].reqPage = fr[k].reqs
            /\ fr[k].reqPage > 1

\* the file holds a whole session that has not expired
\* a session that SAVE_FILE holds or held, and that has not expired
FileValid(fl) ==
    /\ fl.state = "ok"
    /\ LoginKeys \subseteq fl.keys
    /\ FromTimestamp(fl.exp) > now

\* C23 (state): once the asynchronous client has taken the session it read
\* from the file, its access token, refresh token and expiry are those of the
\* file, and the GET it then sends carries that token, no exchange made.
C23_AdoptState ==
    \A k \in TaskIds :
        LET f == fr[k]
        IN  (/\ variant = "async"
             /\ f.pc \in {"save", "close", "get"}
             /\ f.loaded # NoFile
             /\ f.log = <<>>) =>
               /\ access_token = f.loaded.at
               /\ refresh_token = f.loaded.rt
               /\ expires = FromTimestamp(f.loaded.exp)
               /\ f.pc = "get" =>
                     /\ f.bearer = f.loaded.at
                     /\ Len(f.trace) = 1
                     /\ Last(f.trace).auth

\* C23 (step): _ensure_login of the asynchronous client, run with no token in
\* memory, opens the file, reads it and, when it holds a session that has not
\* expired, goes on to save that session, all without an exchange.
C23_AdoptStep ==
    \A k \in TaskIds :
        (variant = "async" /\ fr'[k] # fr[k]) =>
           /\ (fr[k].pc = "ensure" /\ access_token = None /\ ~fr[k].force) =>
                 fr'[k].pc = "open"
           /\ (fr[k].pc = "open" /\ FileValid(file)) => fr'[k].pc = "read"
           /\ (fr[k].pc = "read" /\ FileValid(file)) =>
                 fr'[k].pc = "loaded" /\ fr'[k].loaded = file
           /\ (fr[k].pc = "loaded" /\ FileValid(fr[k].loaded)) => fr'[k].pc = "save"
           /\ fr[k].pc \in {"ensure", "open", "read", "loaded", "save", "close"} =>
                 \/ fr'[k].log = fr[k].log
                 \/ fr[k].pc = "ensure" /\ (access_token # None \/ fr[k].force)

\* C23: when _ensure_login of the asynchronous client runs with no token in
\* memory and a file holding a session that has not expired, it takes the
\* access token, the refresh token and the expiry of the file, and the GET is
\* sent with that token without any exchange.
C23_AdoptFile == []C23_AdoptState /\ [][C23_AdoptStep]_vars

\* C23 witness: the first GET of a client that started without token is in
\* flight with the session of the file
C23_Witness ==
    \E k \in TaskIds :
        /\ variant = "async"
        /\ fr[k].pc = "get"
        /\ fr[k].log = <<>>
        /\ Len(fr[k].trace) = 1
        /\ fr[k].bearer = "a9"
        /\ <<access_token, refresh_token, expires>> = <<"a9", "r9", MaxClock>>

\* a login or refresh request
IsPost(t) == t.service \in {Service.LOGIN, Service.REFRESH}

\* C24 (state): a login or refresh request carries no token; while one is in
\* flight it is the last request sent.
C24_PostState ==
    \A k \in TaskIds :
        LET f == fr[k]
        IN  /\ \A i \in 1..Len(f.trace) :
                  IsPost(f.trace[i]) => ~f.trace[i].auth /\ f.trace[i].type = None
            /\ f.pc \in {"login", "refresh"} =>
                  /\ f.trace # <<>>
                  /\ Last(f.trace).service =
                        (IF f.pc = "login" THEN Service.LOGIN ELSE Service.REFRESH)

\* C24 (step): the step after a login or refresh request is its answer: no
\* session check and no other request comes in between.
C24_PostStep ==
    \A k \in TaskIds :
        (fr[k].pc \in {"login", "refresh"} /\ fr'[k] # fr[k]) =>
            /\ Len(fr'[k].log) = Len(fr[k].log) + 1
            /\ Last(fr'[k].log).req = (IF fr[k].pc = "login" THEN "LOGIN" ELSE "REFRESH")
            /\ \A i \in 1..Len(fr[k].trace) : fr'[k].trace[i] = fr[k].trace[i]
            /\ \A i \in (Len(fr[k].trace) + 1)..Len(fr'[k].trace) :
                  ~IsPost(fr'[k].trace[i])

\* C24: login and refresh requests are sent without token and without a
\* session check of their own, so none is nested in another.
C24_PostPlain == []C24_PostState /\ [][C24_PostStep]_vars

\* C24 witness: the login request that follows a GET answered 401 is in flight
C24_Witness ==
    \E k \in TaskIds :
        /\ fr[k].pc = "login"
        /\ Len(fr[k].trace) = 2
        /\ fr[k].trace[1].auth
        /\ fr[k].trace[2] = [service |-> Service.LOGIN, auth |-> FALSE, type |-> None]
        /\ fr[k].log # <<>> /\ Unauthorized(Last(fr[k].log), TRUE)

\* C25: an answer 429, to a GET or to a POST, does not end the call, and no
\* call ends with the HTTP error 429.
C25_RateLimitAll ==
    \A k \in TaskIds :
        LET f == fr[k]
        IN  /\ f.outcome # [kind |-> "HTTPError", status |-> 429]
            /\ (f.log # <<>> /\ Last(f.log).req # "FETCH" /\ Last(f.log).status = 429) =>
                  f.pc # "done"

\* the arguments of get_games by the name each is sent under
ArgOf(a, key) ==
    CASE key = "page" -> a.page
      [] key = "size" -> a.page_size
      [] key = "from_timestamp" -> a.from_timestamp
      [] key = "to_timestamp" -> a.to_timestamp
      [] key = "tags" -> a.tags

ParamNames == {"page", "size", "from_timestamp", "to_timestamp", "tags"}

\* the elements of a tag list of at most two tags, joined by commas
Joined(tags) ==
    IF Len(tags) = 0 THEN ""
    ELSE IF Len(tags) = 1 THEN tags[1]
    ELSE tags[1] \o "," \o tags[2]

\* get_games sends the names of the arguments given and no other, and the
\* tags as its elements joined by commas in their order
SendsGiven(f) ==
    /\ f.params.keys = {key \in ParamNames : ArgOf(f.args, key).given}
    /\ \A key \in f.params.keys : f.params[key] # None
    /\ f.args.tags.given => f.params.tags = Joined(f.args.tags.v)
    /\ f.args.page.given => f.params.page = ToString(f.args.page.v)
    /\ f.args.page_size.given => f.params.size = ToString(f.args.page_size.v)
    /\ \A key \in {"from_timestamp", "to_timestamp"} :
          (ArgOf(f.args, key).given /\ ~ArgOf(f.args, key).datetime) =>
              f.params[key] = ArgOf(f.args, key).s

\* C26 as claimed: besides, no value sent is empty.
C26_NeverEmpty ==
    \A k \in TaskIds :
        fr[k].op = "get_games" =>
            /\ SendsGiven(fr[k])
            /\ \A key \in fr[k].params.keys : fr[k].params[key] # ""

\* C26 amended: a value sent is empty only when the argument supplied is an
\* empty tags collection or an empty string.
C26_SendsGiven ==
    \A k \in TaskIds :
        fr[k].op = "get_games" =>
            /\ SendsGiven(fr[k])
            /\ \A key \in fr[k].params.keys :
                  fr[k].params[key] = "" =>
                      \/ key = "tags" /\ fr[k].args.tags.v = <<>>
                      \/ /\ key \in {"from_timestamp", "to_timestamp"}
                         /\ ~ArgOf(fr[k].args, key).datetime
                         /\ ArgOf(fr[k].args, key).s = ""

\* C26 witness: the GET of get_games(page=2, tags=[T2, T1]) is in flight
C26_Witness ==
    \E k \in TaskIds :
        /\ fr[k].op = "get_games"
        /\ fr[k].pc = "get"
        /\ fr[k].params.keys = {"page", "tags"}
        /\ fr[k].params.page = "2"
        /\ fr[k].params.tags = "T2,T1"

\* C27: a step in which a login or refresh exchange fails (error status, or a
\* body without a key that is wanted) leaves the access token, the refresh
\* token, the expiry and the file as they were.
C27_FailedExchange ==
    [][\A k \in TaskIds :
          (/\ Len(fr'[k].log) = Len(fr[k].log) + 1
           /\ Last(fr'[k].log).req \in {"LOGIN", "REFRESH"}
           /\ ~Exchanged(Last(fr'[k].log))) =>
             UNCHANGED <<access_token, refresh_token, expires, file>>]_vars

\* C27 witness: the login forced by a 401 was answered 500; the call has
\* failed and the session is the one the client started with
C27_Witness ==
    \E k \in TaskIds :
        /\ fr[k].pc = "done"
        /\ fr[k].outcome.kind = "BadAPIKey"
        /\ Len(fr[k].log) = 2
        /\ Unauthorized(fr[k].log[1], TRUE)
        /\ <<access_token, refresh_token, expires>> = <<"a0", "r0", StartClock + 1>>
        /\ file = NoFile

\* the GET answers of a log, in their order
GetAnswers(L) == SelectSeq(L, LAMBDA e : e.req = "GET")

\* C28 amended: in one call at most one GET is answered 401 while the retry is
\* allowed, and a login follows a GET answered 401 at most once; the GET sent
\* after a 429 has the retry allowance of the GET that got the 429, and the
\* allowance is false after the re-login and never true again, so that the
\* next 401 ends the call.
C28_OneRelogin ==
    \A k \in TaskIds :
        LET f == fr[k]
            L == f.log
            G == GetAnswers(L)
        IN  /\ Cardinality({i \in 1..Len(L) : Unauthorized(L[i], TRUE)}) <= 1
            /\ Cardinality({i \in 2..Len(L) :
                               L[i].req = "LOGIN" /\ L[i - 1].req = "GET"}) <= 1
            /\ \A i \in 1..Len(G) :
                  /\ (RateLimited(G[i]) /\ i < Len(G)) => G[i + 1].allow = G[i].allow
                  /\ (RateLimited(G[i]) /\ i = Len(G)) =>
                        /\ f.pc # "done" => f.allow_retry = G[i].allow
                        /\ RateLimited(Last(L)) => f.pc # "done"
                  /\ (G[i].status = 401 /\ i < Len(G)) => ~G[i + 1].allow
                  /\ \A j \in 1..Len(G) : (i < j /\ ~G[i].allow) => ~G[j].allow
            /\ \A i \in 1..Len(L) :
                  Unauthorized(L[i], FALSE) =>
                      i = Len(L) /\ f.pc = "done" /\ f.outcome.kind = "HTTPError"

\* C28 as claimed: one call of a client that holds a token sends at most one
\* login request, whatever made _ensure_login run with force_relogin.
C28_OneLogin ==
    \A k \in TaskIds :
        Cardinality({i \in 1..Len(fr[k].log) : fr[k].log[i].req = "LOGIN"}) <= 1

\* C28 witness: 429, 401, login, 429 during the retry, then the fatal 401
C28_Witness ==
    \E k \in TaskIds :
        /\ fr[k].pc = "done"
        /\ Len(fr[k].log) = 5
        /\ RateLimited(fr[k].log[1]) /\ fr[k].log[1].allow
        /\ Unauthorized(fr[k].log[2], TRUE)
        /\ fr[k].log[3].req = "LOGIN"
        /\ RateLimited(fr[k].log[4]) /\ ~fr[k].log[4].allow
        /\ Unauthorized(fr[k].log[5], FALSE)

----------------------------------------------------------------------------
(* Concurrent calls on one asynchronous client. *)

\* caller k has a login or refresh request in flight
Exchanging(k) == fr[k].pc \in {"login", "refresh"}

\* C29: of two concurrent calls on one asynchronous client that
\* both find the session absent or expired, only one has a login or refresh
\* request in flight, and both send their GET with the same token.
C29_OneExchange ==
    \A j, k \in TaskIds :
        j # k =>
          /\ ~(Exchanging(j) /\ Exchanging(k))
          /\ (/\ fr[j].pc = "get" /\ fr[k].pc = "get"
              /\ Len(fr[j].trace) = 2 /\ Len(fr[k].trace) = 2) =>
                fr[j].bearer = fr[k].bearer

----------------------------------------------------------------------------
(* Instances with different credentials and one SAVE_FILE. *)

\* C30: the bearer token of a GET is never a token that the server granted
\* to the credentials of another instance, which that instance saved to the
\* SAVE_FILE all instances share.
C30_OwnCredentials ==
    \A k \in TaskIds :
        fr[k].pc = "get" => fr[k].bearer \notin OtherTokens

====
